---- MODULE Spec2Model ----
(***************************************************************************)
(* Model of src/face-fit/main.cpp: the three mode drivers (list, video,    *)
(* image) that feed frames to a face tracker, accept or reject the         *)
(* tracker's answer against cfg.tracking_threshold, and route the shape to *)
(* IO::SavePts and/or display_image_and_points.                            *)
(*                                                                         *)
(* One run of the program is one behaviour.  The tracker, the image         *)
(* decoder, the video stream and the keyboard are external: what they      *)
(* return is drawn from small sets at the step that calls them.  `trace'   *)
(* is the history of the externally visible calls the run has made.        *)
(***************************************************************************)
EXTENDS Integers, Sequences, FiniteSets, TLC

\* ------------------------------------------------------------ bounds
\* Longest image list / video stream explored.
MaxFrames == 4

\* Longest command line explored.
MaxArgs == 4

\* Longest image list / video stream explored when --wait-time is given.
MaxWaitFrames == 2

\* pathname_buffer.resize(1000)
BufSize == 1000

\* "if (ch == 27) // escape"
EscapeKey == 27

\* ------------------------------------------------------------ input sets
Modes == {"lists", "video", "image"}

\* values given to --threshold (default 5; "10 is extremely picky")
Thresholds == {5, 10}

\* values NewFrame / Track can return
Confs == {4, 5, 9, 10}

\* what tracker->getShape() can hold: no point, or the model's points
TrackerShapes == {<<>>, <<"p1", "p2", "p3", "p4", "p5">>}

\* image.type() of a decoded frame: single channel, 3 channel, anything else
FrameTypes == {"gray", "bgr", "other"}

\* what cv::waitKey can return: -1 (no key), return, escape, 27 + 256
Keys == {-1, 13, 27, 283}

\* Durations are counted in microseconds: 1000000 is one second.
\* values given to --wait-time: 0, half a millisecond, one millisecond
WaitTimesGiven == {0, 500, 1000}

\* the words of a command line: options without value, and three other words
Tokens == {"--help", "--lists", "--video", "--verbose", "a", "b", "c"}

Min(a, b) == IF a <= b THEN a ELSE b

\* ------------------------------------------------------------ formatting
Digit(d) == <<"0", "1", "2", "3", "4", "5", "6", "7", "8", "9">>[d + 1]

RECURSIVE Decimal(_)
\* the decimal digits printf's %u conversion produces for n >= 0
Decimal(n) == IF n < 10 THEN <<Digit(n)>> ELSE Decimal(n \div 10) \o <<Digit(n % 10)>>

\* printf's %[0][width]u applied to the int argument n; a frame_number in
\* 0 .. 2^31 - 1 reads as the same unsigned value
FormatUnsigned(n, width, zero) ==
    LET digs == Decimal(n)
        pad  == IF Len(digs) >= width THEN 0 ELSE width - Len(digs)
    IN  [i \in 1..pad |-> IF zero THEN "0" ELSE " "] \o digs

\* A format string "<pre>%[0][width]u<post>" or, with slot = FALSE, "<pre><post>".
Lit(n, c) == [i \in 1..n |-> c]

TemplateOut04 ==
    [pre |-> <<"o", "u", "t", "_">>, slot |-> TRUE, width |-> 4, zero |-> TRUE,
     post |-> <<".", "p", "t", "s">>]

\* a directory prefix that alone fills the pathname buffer, then "%u"
TemplateLong ==
    [pre |-> Lit(BufSize - 1, "d"), slot |-> TRUE, width |-> 0, zero |-> FALSE,
     post |-> <<>>]

\* no conversion at all: every frame resolves to the same pathname
TemplateNoSlot ==
    [pre |-> <<"o", "u", "t">>, slot |-> FALSE, width |-> 0, zero |-> FALSE,
     post |-> <<".", "p", "t", "s">>]

Templates == {TemplateOut04, TemplateLong, TemplateNoSlot}

\* snprintf(buf, size, fmt, n): the formatted text cut to size - 1 characters
snprintf(size, fmt, n) ==
    LET full == fmt.pre
                \o (IF fmt.slot THEN FormatUnsigned(n, fmt.width, fmt.zero) ELSE <<>>)
                \o fmt.post
    IN  SubSeq(full, 1, Min(Len(full), size - 1))

\* the i-th line of the landmark list file
ListPath(i) == <<"l", Digit(i)>>

ImageOutPath == <<"o", "u", "t", ".", "p", "t", "s">>

\* ------------------------------------------------------------ state
VARIABLES
    mode,               \* which driver run_program dispatches to
    cmd,                \* run_program's argument loop: argv, i, lists_mode, video_mode
    cfg,                \* Configuration: tracking_threshold, verbose, wait_time
    image_argument,     \* lists: the image list; video: the stream; image: the image
    landmarks_argument, \* <<>> when absent, else <<v>>: list of paths / template / path
    pc,                 \* position of the run in its driver
    exit,               \* process exit status, -1 while running
    tracker,            \* "unloaded", "cold", "fit", "stale", "deleted"
    image_it,           \* lists: position of image_it in image_pathnames (1-based)
    landmarks_it,       \* lists: position of landmarks_it in landmark_pathnames
    frame_number,       \* video: int frame_number
    image,              \* the frame in hand: "none", "empty" or its image.type()
    result,             \* int result of the last NewFrame / Track, -1 before it
    fitted,             \* what tracker->getShape() holds after the last call
    shape,              \* std::vector shape of the frame in hand
    waited,             \* <<>> or <<key>>: what cv::waitKey returned for this frame
    frame,              \* how many frames the source has delivered so far
    trace               \* the calls made so far, in order

vars == <<mode, cmd, cfg, image_argument, landmarks_argument, pc, exit, tracker,
          image_it, landmarks_it, frame_number, image, result, fitted, shape,
          waited, frame, trace>>

args == <<mode, cmd, cfg, image_argument, landmarks_argument>>

have_argument_p(a) == Len(a) > 0

\* read_list: the lines of the list file, in order
read_list(file) == file

\* load_grayscale_image: the decoded image, or an exception for an unreadable path
load_grayscale_image(readable) == IF readable THEN "image" ELSE "throw"

\* ------------------------------------------------------------ main
\* mutant: the std::exception handler comes first and takes every exception
main_catch_base_first(e) == 2

\* main's try/catch: the exit status for an exception leaving run_program
main_catch(e) == IF e = "user_pressed_escape" THEN 1 ELSE 2

Throw(e) == pc' = "done" /\ exit' = main_catch(e)

Return(v) == pc' = "done" /\ exit' = v

\* ------------------------------------------------------------ display
\* "char ch = cv::waitKey(...)": the int narrowed to the build's char
NarrowToChar(k, signed) ==
    LET m == k % 256 IN IF signed /\ m >= 128 THEN m - 256 ELSE m

\* the int that "cfg.wait_time * 1000" becomes as the argument of cv::waitKey:
\* milliseconds, the fraction cut off towards zero
wait_ms(wait_time) ==
    IF wait_time >= 0 THEN wait_time \div 1000 ELSE -((-wait_time) \div 1000)

\* "if (cfg.wait_time == 0) std::cout << "Press any key to continue.""
display_prompt(wait_time) == wait_time = 0

\* cv::waitKey(delay) waits for a key without limit when delay <= 0
waits_forever(delay) == delay <= 0

\* what cv::waitKey(delay) can return: -1 only when the delay ran out
waitKey(delay) == IF waits_forever(delay) THEN Keys \ {-1} ELSE Keys

\* display_image_and_points: TRUE iff it throws user_pressed_escape
display_throws(key, signed) == NarrowToChar(key, signed) = EscapeKey

\* ------------------------------------------------------------ events
EvOpen(ok)               == [op |-> "open", k |-> 0, ok |-> ok]
EvFetch(k, ok)           == [op |-> "fetch", k |-> k, ok |-> ok]
EvTrack(k, call, r, on)  == [op |-> "track", k |-> k, call |-> call,
                             below |-> r < cfg.tracking_threshold, on |-> on]
EvReset(k)               == [op |-> "reset", k |-> k]
EvPersist(k, path, slot) == [op |-> "persist", k |-> k, path |-> path, slot |-> slot]
EvDisplay(k, pts, esc)   == [op |-> "display", k |-> k, markers |-> Len(pts), esc |-> esc,
                             prompt |-> display_prompt(cfg.wait_time),
                             delay |-> wait_ms(cfg.wait_time)]

\* the tracker's state after a tracking call that returned r
Tracked(r) == IF r < cfg.tracking_threshold THEN "stale" ELSE "fit"

\* ------------------------------------------------------------ Init
\* run_program: 1.0 / 30 seconds in list and video mode, 0 in image mode
default_wait_time(m) == IF m \in {"lists", "video"} THEN 33333 ELSE 0

\* the state when run_program calls the driver: --wait-time absent or one of
\* `given', a source of at most `len' frames
Start(given, len) ==
    /\ mode \in Modes
    /\ cmd = [argv |-> <<>>, i |-> 1, lists_mode |-> mode = "lists",
              video_mode |-> mode = "video"]
    /\ cfg \in [tracking_threshold : Thresholds, verbose : BOOLEAN,
                wait_time : {default_wait_time(mode)} \cup given]
    /\ \/ /\ mode = "lists"
          /\ image_argument \in {[i \in 1..n |-> i] : n \in 0..len}
          /\ landmarks_argument \in
                {<<>>} \cup {<<[i \in 1..m |-> ListPath(i)]>> : m \in 0..len}
       \/ /\ mode = "video"
          /\ image_argument \in 0..len
          /\ landmarks_argument \in {<<>>} \cup {<<t>> : t \in Templates}
       \/ /\ mode = "image"
          /\ image_argument = 1
          /\ landmarks_argument \in {<<>>, <<ImageOutPath>>}
    /\ pc = "start"
    /\ exit = -1
    /\ tracker = "unloaded"
    /\ image_it = 0
    /\ landmarks_it = 0
    /\ frame_number = 0
    /\ image = "none"
    /\ result = -1
    /\ fitted = <<>>
    /\ shape = <<>>
    /\ waited = <<>>
    /\ frame = 0
    /\ trace = <<>>

\* a run without --wait-time
Init == Start({}, MaxFrames)

\* a run with or without --wait-time on a short source
InitWait == Start(WaitTimesGiven, MaxWaitFrames)

\* ------------------------------------------------------------ list mode
\* mutant: the threshold as an exclusive bound
lists_accept_strict(r, threshold) == r > threshold

\* "if (result >= cfg.tracking_threshold)" of run_lists_mode
lists_accept(r, threshold) == r >= threshold

\* mutant: the last else-if is missing, an empty shape is never shown
lists_routing_quiet(have, s, verbose) ==
    IF ~have THEN [persist |-> FALSE, display |-> TRUE]
    ELSE IF Len(s) > 0 THEN [persist |-> TRUE, display |-> verbose]
    ELSE [persist |-> FALSE, display |-> FALSE]

\* the if / else-if chain after tracking: what run_lists_mode does with the shape
lists_routing(have, s, verbose) ==
    IF ~have THEN [persist |-> FALSE, display |-> TRUE]
    ELSE IF Len(s) > 0 THEN [persist |-> TRUE, display |-> verbose]
    ELSE IF verbose THEN [persist |-> FALSE, display |-> TRUE]
    ELSE [persist |-> FALSE, display |-> FALSE]

\* mutant: the increment of landmarks_it is forgotten
lists_advance_never(have, it) == it

\* "if (have_argument_p(landmarks_argument)) landmarks_it++;"
lists_advance(have, it) == IF have THEN it + 1 ELSE it

\* mutant: the iterator is advanced twice, every other image is skipped
lists_next_image_twice(it) == it + 2

\* "image_it++" of the for statement
lists_next_image(it) == it + 1

\* mutant: only an output list that is too short is refused
lists_mismatch_short(have, images, landmarks) == have /\ Len(landmarks) < Len(images)

\* "if (landmark_pathnames.size() != image_pathnames.size()) throw ..."
lists_mismatch(have, images, landmarks) == have /\ Len(landmarks) # Len(images)

\* "else { tracker->Reset(); }" of run_lists_mode
lists_reject(k) == [calls |-> <<EvReset(k)>>, tracker |-> "cold"]

\* "landmarks_it->c_str()"
lists_target(paths, it) == IF it \in DOMAIN paths THEN paths[it] ELSE <<"?">>

landmark_pathnames ==
    IF have_argument_p(landmarks_argument) THEN read_list(landmarks_argument[1]) ELSE <<>>

image_pathnames == read_list(image_argument)

\* load the tracker, read the lists, check their lengths, set the iterators
ListsBegin ==
    /\ pc = "start" /\ mode = "lists"
    /\ tracker' = "cold"
    /\ image_it' = 1
    /\ landmarks_it' = 1
    /\ IF lists_mismatch(have_argument_p(landmarks_argument), image_pathnames,
                         landmark_pathnames)
       THEN Throw("runtime_error")
       ELSE pc' = "lists_loop" /\ exit' = exit
    /\ UNCHANGED <<args, frame_number, image, result, fitted, shape, waited, frame,
                   trace>>

\* the loop test and load_grayscale_image; past the end: delete and return 0
ListsLoad ==
    /\ pc = "lists_loop"
    /\ IF image_it > Len(image_pathnames)
       THEN /\ tracker' = "deleted"
            /\ Return(0)
            /\ UNCHANGED <<image, frame, trace>>
       ELSE \E readable \in BOOLEAN :
            /\ frame' = frame + 1
            /\ trace' = Append(trace, EvFetch(frame', readable))
            /\ IF load_grayscale_image(readable) = "image"
               THEN /\ \E t \in {"gray", "bgr"} : image' = t
                    /\ pc' = "lists_track" /\ exit' = exit
               ELSE /\ image' = "none"
                    /\ Throw("runtime_error")
            /\ UNCHANGED tracker
    /\ result' = -1
    /\ shape' = <<>>
    /\ waited' = <<>>
    /\ UNCHANGED <<args, image_it, landmarks_it, frame_number, fitted>>

\* NewFrame, then accept the shape or Reset
ListsTrack ==
    /\ pc = "lists_track"
    /\ \E r \in Confs, s \in TrackerShapes :
         /\ result' = r
         /\ fitted' = s
         /\ IF lists_accept(r, cfg.tracking_threshold)
            THEN /\ shape' = s
                 /\ tracker' = Tracked(r)
                 /\ trace' = Append(trace, EvTrack(frame, "NewFrame", r, tracker))
            ELSE /\ shape' = <<>>
                 /\ tracker' = lists_reject(frame).tracker
                 /\ trace' = trace \o <<EvTrack(frame, "NewFrame", r, tracker)>>
                                    \o lists_reject(frame).calls
    /\ pc' = "lists_route"
    /\ UNCHANGED <<args, exit, image_it, landmarks_it, frame_number, image,
                   waited, frame>>

\* mutant: the frame is shown before its shape is saved, so that an escape
\* at the display leaves the shape unsaved
ListsRoute_display_first ==
    /\ pc = "lists_route"
    /\ \E key \in waitKey(wait_ms(cfg.wait_time)), signed \in BOOLEAN :
         LET r   == lists_routing(have_argument_p(landmarks_argument), shape, cfg.verbose)
             esc == r.display /\ display_throws(key, signed)
             sav == IF r.persist /\ ~esc
                    THEN <<EvPersist(frame, lists_target(landmark_pathnames, landmarks_it),
                                     landmarks_it)>>
                    ELSE <<>>
             dis == IF r.display THEN <<EvDisplay(frame, shape, esc)>> ELSE <<>>
         IN  /\ trace' = trace \o dis \o sav
             /\ waited' = IF r.display THEN <<key>> ELSE <<>>
             /\ IF esc THEN Throw("user_pressed_escape")
                       ELSE pc' = "lists_next" /\ exit' = exit
    /\ UNCHANGED <<args, tracker, image_it, landmarks_it, frame_number, image,
                   result, fitted, shape, frame>>

\* SavePts and / or display_image_and_points
ListsRoute ==
    /\ pc = "lists_route"
    /\ \E key \in waitKey(wait_ms(cfg.wait_time)), signed \in BOOLEAN :
         LET r   == lists_routing(have_argument_p(landmarks_argument), shape, cfg.verbose)
             esc == r.display /\ display_throws(key, signed)
             sav == IF r.persist
                    THEN <<EvPersist(frame, lists_target(landmark_pathnames, landmarks_it),
                                     landmarks_it)>>
                    ELSE <<>>
             dis == IF r.display THEN <<EvDisplay(frame, shape, esc)>> ELSE <<>>
         IN  /\ trace' = trace \o sav \o dis
             /\ waited' = IF r.display THEN <<key>> ELSE <<>>
             /\ IF esc THEN Throw("user_pressed_escape")
                       ELSE pc' = "lists_next" /\ exit' = exit
    /\ UNCHANGED <<args, tracker, image_it, landmarks_it, frame_number, image,
                   result, fitted, shape, frame>>

\* landmarks_it++ when there is a landmark list, then image_it++
ListsNext ==
    /\ pc = "lists_next"
    /\ landmarks_it' = lists_advance(have_argument_p(landmarks_argument), landmarks_it)
    /\ image_it' = lists_next_image(image_it)
    /\ pc' = "lists_loop"
    /\ UNCHANGED <<args, exit, tracker, frame_number, image, result, fitted,
                   shape, waited, frame, trace>>

\* ------------------------------------------------------------ video mode
\* "if (result >= cfg.tracking_threshold)" of run_video_mode
video_accept(r, threshold) == r >= threshold

\* mutant: a saved frame is always shown, the verbose test is missing
video_routing_always_show(have, s, verbose) ==
    IF ~have THEN [persist |-> FALSE, display |-> TRUE]
    ELSE IF Len(s) > 0 THEN [persist |-> TRUE, display |-> TRUE]
    ELSE IF verbose THEN [persist |-> FALSE, display |-> TRUE]
    ELSE [persist |-> FALSE, display |-> FALSE]

\* the if / else-if chain after tracking: what run_video_mode does with the shape
video_routing(have, s, verbose) ==
    IF ~have THEN [persist |-> FALSE, display |-> TRUE]
    ELSE IF Len(s) > 0 THEN [persist |-> TRUE, display |-> verbose]
    ELSE IF verbose THEN [persist |-> FALSE, display |-> TRUE]
    ELSE [persist |-> FALSE, display |-> FALSE]

\* mutant: the rejected frame is dropped and the tracker is left as it is
video_reject_noreset(k) == [calls |-> <<>>, tracker |-> "stale"]

\* "else { tracker->Reset(); }" of run_video_mode
video_reject(k) == [calls |-> <<EvReset(k)>>, tracker |-> "cold"]

\* mutant: every other layout is handed on as if it were single channel
video_gray_lenient(type) == IF type = "bgr" THEN "cvtColor" ELSE "same"

\* the grayscale conversion: 3 channels, 1 channel, else an exception
video_gray(type) ==
    IF type = "bgr" THEN "cvtColor" ELSE IF type = "gray" THEN "same" ELSE "throw"

\* "int frame_number = 1;"
video_first_frame_number == 1

\* "frame_number++;" at the end of every iteration
video_advance(n) == n + 1

\* mutant: the file is numbered from 0, one behind the frame counter
video_target_zero_based(template, n) == snprintf(BufSize, template, n - 1)

\* the pathname SavePts is given: the template formatted into pathname_buffer
video_target(template, n) == snprintf(BufSize, template, n)

\* "input >> image": the next frame of the stream, "empty" once it is exhausted
Pull(t) == IF frame < image_argument THEN t ELSE "empty"

PullEvent == IF frame < image_argument THEN <<EvFetch(frame + 1, TRUE)>> ELSE <<>>

Pulled == IF frame < image_argument THEN frame + 1 ELSE frame

\* load the tracker, open the stream, pull the first frame
VideoBegin ==
    /\ pc = "start" /\ mode = "video"
    /\ tracker' = "cold"
    /\ \E opened \in BOOLEAN :
         IF opened
         THEN /\ \E t \in FrameTypes : image' = Pull(t)
              /\ frame' = Pulled
              /\ trace' = <<EvOpen(TRUE)>> \o PullEvent
              /\ frame_number' = video_first_frame_number
              /\ pc' = "video_loop" /\ exit' = exit
         ELSE /\ trace' = <<EvOpen(FALSE)>>
              /\ Throw("runtime_error")
              /\ UNCHANGED <<image, frame, frame_number>>
    /\ UNCHANGED <<args, image_it, landmarks_it, result, fitted, shape, waited>>

\* the loop test and the conversion to grayscale; stream exhausted: delete, return 0
VideoConvert ==
    /\ pc = "video_loop"
    /\ IF image = "empty"
       THEN tracker' = "deleted" /\ Return(0)
       ELSE IF video_gray(image) # "throw"
       THEN pc' = "video_track" /\ UNCHANGED <<exit, tracker>>
       ELSE Throw("runtime_error") /\ UNCHANGED tracker
    /\ result' = -1
    /\ shape' = <<>>
    /\ waited' = <<>>
    /\ UNCHANGED <<args, image_it, landmarks_it, frame_number, image, fitted,
                   frame, trace>>

\* Track, then accept the shape or Reset
VideoTrack ==
    /\ pc = "video_track"
    /\ \E r \in Confs, s \in TrackerShapes :
         /\ result' = r
         /\ fitted' = s
         /\ IF video_accept(r, cfg.tracking_threshold)
            THEN /\ shape' = s
                 /\ tracker' = Tracked(r)
                 /\ trace' = Append(trace, EvTrack(frame, "Track", r, tracker))
            ELSE /\ shape' = <<>>
                 /\ tracker' = video_reject(frame).tracker
                 /\ trace' = trace \o <<EvTrack(frame, "Track", r, tracker)>>
                                    \o video_reject(frame).calls
    /\ pc' = "video_route"
    /\ UNCHANGED <<args, exit, image_it, landmarks_it, frame_number, image,
                   waited, frame>>

\* snprintf + SavePts and / or display_image_and_points
VideoRoute ==
    /\ pc = "video_route"
    /\ \E key \in waitKey(wait_ms(cfg.wait_time)), signed \in BOOLEAN :
         LET r   == video_routing(have_argument_p(landmarks_argument), shape, cfg.verbose)
             esc == r.display /\ display_throws(key, signed)
             sav == IF r.persist
                    THEN <<EvPersist(frame, video_target(landmarks_argument[1], frame_number),
                                     frame_number)>>
                    ELSE <<>>
             dis == IF r.display THEN <<EvDisplay(frame, shape, esc)>> ELSE <<>>
         IN  /\ trace' = trace \o sav \o dis
             /\ waited' = IF r.display THEN <<key>> ELSE <<>>
             /\ IF esc THEN Throw("user_pressed_escape")
                       ELSE pc' = "video_next" /\ exit' = exit
    /\ UNCHANGED <<args, tracker, image_it, landmarks_it, frame_number, image,
                   result, fitted, shape, frame>>

\* "input >> image; frame_number++;"
VideoNext ==
    /\ pc = "video_next"
    /\ \E t \in FrameTypes : image' = Pull(t)
    /\ frame' = Pulled
    /\ trace' = trace \o PullEvent
    /\ frame_number' = video_advance(frame_number)
    /\ pc' = "video_loop"
    /\ UNCHANGED <<args, exit, tracker, image_it, landmarks_it, result, fitted,
                   shape, waited>>

\* ------------------------------------------------------------ image mode
\* mutant: the comparison is off by one, a confidence one short is taken
image_accept_lenient(r, threshold) == r >= threshold - 1

\* "if (result >= cfg.tracking_threshold)" of run_image_mode
image_accept(r, threshold) == r >= threshold

\* mutant: image mode given the chain of the two loops
image_routing_verbose(have, s, verbose) ==
    IF ~have THEN [persist |-> FALSE, display |-> TRUE]
    ELSE IF Len(s) > 0 THEN [persist |-> TRUE, display |-> verbose]
    ELSE IF verbose THEN [persist |-> FALSE, display |-> TRUE]
    ELSE [persist |-> FALSE, display |-> FALSE]

\* the if / else-if after tracking: what run_image_mode does with the shape
image_routing(have, s, verbose) ==
    IF ~have THEN [persist |-> FALSE, display |-> TRUE]
    ELSE IF Len(s) > 0 THEN [persist |-> TRUE, display |-> FALSE]
    ELSE [persist |-> FALSE, display |-> FALSE]

\* load the tracker and the image
ImageBegin ==
    /\ pc = "start" /\ mode = "image"
    /\ tracker' = "cold"
    /\ \E readable \in BOOLEAN :
         /\ frame' = frame + 1
         /\ trace' = Append(trace, EvFetch(frame', readable))
         /\ IF load_grayscale_image(readable) = "image"
            THEN /\ \E t \in {"gray", "bgr"} : image' = t
                 /\ pc' = "image_track" /\ exit' = exit
            ELSE /\ image' = "none"
                 /\ Throw("runtime_error")
    /\ UNCHANGED <<args, image_it, landmarks_it, frame_number, result, fitted,
                   shape, waited>>

\* mutant: the decision of the two loops copied into image mode, Reset included
ImageTrack_with_reset ==
    /\ pc = "image_track"
    /\ \E r \in Confs, s \in TrackerShapes :
         /\ result' = r
         /\ fitted' = s
         /\ IF image_accept(r, cfg.tracking_threshold)
            THEN /\ shape' = s
                 /\ tracker' = Tracked(r)
                 /\ trace' = Append(trace, EvTrack(frame, "NewFrame", r, tracker))
            ELSE /\ shape' = <<>>
                 /\ tracker' = "cold"
                 /\ trace' = trace \o <<EvTrack(frame, "NewFrame", r, tracker),
                                        EvReset(frame)>>
    /\ pc' = "image_route"
    /\ UNCHANGED <<args, exit, image_it, landmarks_it, frame_number, image,
                   waited, frame>>

\* NewFrame, then take the shape when accepted; no Reset here
ImageTrack ==
    /\ pc = "image_track"
    /\ \E r \in Confs, s \in TrackerShapes :
         /\ result' = r
         /\ fitted' = s
         /\ shape' = IF image_accept(r, cfg.tracking_threshold) THEN s ELSE <<>>
         /\ tracker' = Tracked(r)
         /\ trace' = Append(trace, EvTrack(frame, "NewFrame", r, tracker))
    /\ pc' = "image_route"
    /\ UNCHANGED <<args, exit, image_it, landmarks_it, frame_number, image,
                   waited, frame>>

\* display or SavePts, then delete the tracker and return 0
ImageRoute ==
    /\ pc = "image_route"
    /\ \E key \in waitKey(wait_ms(cfg.wait_time)), signed \in BOOLEAN :
         LET r   == image_routing(have_argument_p(landmarks_argument), shape, cfg.verbose)
             esc == r.display /\ display_throws(key, signed)
             sav == IF r.persist THEN <<EvPersist(frame, landmarks_argument[1], 1)>>
                                 ELSE <<>>
             dis == IF r.display THEN <<EvDisplay(frame, shape, esc)>> ELSE <<>>
         IN  /\ trace' = trace \o sav \o dis
             /\ waited' = IF r.display THEN <<key>> ELSE <<>>
             /\ IF esc THEN Throw("user_pressed_escape") /\ UNCHANGED tracker
                       ELSE tracker' = "deleted" /\ Return(0)
    /\ UNCHANGED <<args, image_it, landmarks_it, frame_number, image,
                   result, fitted, shape, frame>>

Next ==
    \/ ListsBegin \/ ListsLoad \/ ListsTrack \/ ListsRoute \/ ListsNext
    \/ VideoBegin \/ VideoConvert \/ VideoTrack \/ VideoRoute \/ VideoNext
    \/ ImageBegin \/ ImageTrack \/ ImageRoute

Spec == Init /\ [][Next]_vars

SpecWait == InitWait /\ [][Next]_vars

\* ------------------------------------------------------------ run_program
\* The argument loop of run_program, up to the call of a driver.  Here
\* image_argument and landmarks_argument hold the word given (<<>> when
\* none).  The options that take a value (--wait-time, --model, --params,
\* --title, --threshold) only fill fields of cfg and are left to Start.

\* assign_argument: the word goes to the first of the two arguments still
\* free; FALSE when both are taken
assign_argument(a, b) ==
    IF ~have_argument_p(a) THEN "image"
    ELSE IF ~have_argument_p(b) THEN "landmarks"
    ELSE "none"

\* mutant: the test for the two switches is missing
run_program_conflict_unchecked(lists_mode, video_mode) == FALSE

\* "if (lists_mode && video_mode) throw ..."
run_program_conflict(lists_mode, video_mode) == lists_mode /\ video_mode

\* cfg as run_program sets it before the loop
InitialCfg == [tracking_threshold |-> 5, verbose |-> FALSE, wait_time |-> 0]

InitArgs ==
    /\ mode = "none"
    /\ cmd \in [argv : UNION {[1..n -> Tokens] : n \in 0..MaxArgs}, i : {1},
                lists_mode : {FALSE}, video_mode : {FALSE}]
    /\ cfg = InitialCfg
    /\ image_argument = <<>>
    /\ landmarks_argument = <<>>
    /\ pc = "parse"
    /\ exit = -1
    /\ tracker = "unloaded"
    /\ image_it = 0
    /\ landmarks_it = 0
    /\ frame_number = 0
    /\ image = "none"
    /\ result = -1
    /\ fitted = <<>>
    /\ shape = <<>>
    /\ waited = <<>>
    /\ frame = 0
    /\ trace = <<>>

\* one iteration of "for (int i = 1; i < argc; i++)"
ParseArgument ==
    /\ pc = "parse"
    /\ cmd.i <= Len(cmd.argv)
    /\ LET argument == cmd.argv[cmd.i]
           next     == [cmd EXCEPT !.i = @ + 1]
       IN  IF argument \in {"--help", "-h"}
           THEN /\ Return(0)
                /\ UNCHANGED <<cmd, cfg, image_argument, landmarks_argument>>
           ELSE IF argument = "--lists"
           THEN /\ cmd' = [next EXCEPT !.lists_mode = TRUE]
                /\ UNCHANGED <<pc, exit, cfg, image_argument, landmarks_argument>>
           ELSE IF argument = "--video"
           THEN /\ cmd' = [next EXCEPT !.video_mode = TRUE]
                /\ UNCHANGED <<pc, exit, cfg, image_argument, landmarks_argument>>
           ELSE IF argument = "--verbose"
           THEN /\ cmd' = next
                /\ cfg' = [cfg EXCEPT !.verbose = TRUE]
                /\ UNCHANGED <<pc, exit, image_argument, landmarks_argument>>
           ELSE IF assign_argument(image_argument, landmarks_argument) = "image"
           THEN /\ cmd' = next
                /\ image_argument' = <<argument>>
                /\ UNCHANGED <<pc, exit, cfg, landmarks_argument>>
           ELSE IF assign_argument(image_argument, landmarks_argument) = "landmarks"
           THEN /\ cmd' = next
                /\ landmarks_argument' = <<argument>>
                /\ UNCHANGED <<pc, exit, cfg, image_argument>>
           ELSE /\ Throw("runtime_error")
                /\ UNCHANGED <<cmd, cfg, image_argument, landmarks_argument>>
    /\ UNCHANGED <<mode, tracker, image_it, landmarks_it, frame_number, image,
                   result, fitted, shape, waited, frame, trace>>

\* after the loop: usage without input, the conflict test, the call of a driver
ParseEnd ==
    /\ pc = "parse"
    /\ cmd.i > Len(cmd.argv)
    /\ IF ~have_argument_p(image_argument)
       THEN Return(0) /\ UNCHANGED <<mode, cfg>>
       ELSE IF run_program_conflict(cmd.lists_mode, cmd.video_mode)
       THEN Throw("runtime_error") /\ UNCHANGED <<mode, cfg>>
       ELSE /\ mode' = IF cmd.lists_mode THEN "lists"
                       ELSE IF cmd.video_mode THEN "video" ELSE "image"
            /\ cfg' = [cfg EXCEPT !.wait_time = default_wait_time(mode')]
            /\ pc' = "start"
            /\ exit' = exit
    /\ UNCHANGED <<cmd, image_argument, landmarks_argument, tracker, image_it,
                   landmarks_it, frame_number, image, result, fitted, shape,
                   waited, frame, trace>>

NextArgs == ParseArgument \/ ParseEnd

SpecArgs == InitArgs /\ [][NextArgs]_vars

\* ------------------------------------------------------------ reading the trace
Routed(k, op) == \E i \in DOMAIN trace : trace[i].op = op /\ trace[i].k = k

\* the frame in hand has been tracked and decided
Decided == result # -1

\* list / video mode: the frame in hand has gone through the routing step
LoopRouted ==
    /\ mode \in {"lists", "video"}
    /\ pc \in {"lists_next", "video_next"} \/ (pc = "done" /\ exit = 1)

\* image mode: the frame has gone through the routing step
ImageRouted == mode = "image" /\ pc = "done" /\ Decided

\* what the routing step did for frame k
Actions(k) == {op \in {"persist", "display"} : Routed(k, op)}

\* the routing table of the specification, section 4.4
RoutingTable(have, nonempty, verbose) ==
    IF ~have THEN {"display"}
    ELSE IF nonempty /\ ~verbose THEN {"persist"}
    ELSE IF nonempty /\ verbose THEN {"persist", "display"}
    ELSE IF verbose THEN {"display"}
    ELSE {}

\* ------------------------------------------------------------ C1
\* C1: in every mode, the shape of a tracked frame is the tracker's shape when
\* the confidence is >= the threshold (equality included) and the empty
\* sequence when it is below.
C1_AcceptIffAtLeastThreshold ==
    Decided =>
        shape = IF result >= cfg.tracking_threshold THEN fitted ELSE <<>>

\* a frame whose confidence equals the threshold, accepted with its points
C1_Witness ==
    /\ Decided
    /\ result = cfg.tracking_threshold
    /\ Len(shape) = 5

\* ------------------------------------------------------------ C2
\* C2: in list and video mode, a tracking call that returned less than the
\* threshold is followed at once by Reset for the same frame, Reset follows
\* nothing else, and no tracking call is made on a tracker left stale.
C2_ResetAfterEveryRejectedFrame ==
    mode \in {"lists", "video"} =>
        \A i \in DOMAIN trace :
            /\ (trace[i].op = "track" /\ trace[i].below) =>
                   /\ i + 1 \in DOMAIN trace
                   /\ trace[i + 1] = EvReset(trace[i].k)
            /\ trace[i].op = "reset" =>
                   /\ i > 1
                   /\ trace[i - 1].op = "track"
                   /\ trace[i - 1].below
                   /\ trace[i - 1].k = trace[i].k
            /\ trace[i].op = "track" => trace[i].on # "stale"

\* video mode: frame 1 rejected and reset, frame 2 tracked from the reset state
C2_Witness ==
    /\ mode = "video"
    /\ \E i, j \in DOMAIN trace :
         /\ i < j
         /\ trace[i] = EvReset(1)
         /\ trace[j].op = "track" /\ trace[j].k = 2 /\ trace[j].on = "cold"

\* ------------------------------------------------------------ C3
\* C3: in list and video mode, what is done with a frame (persist, display) is
\* what the routing table gives for (destination, shape non-empty, verbose);
\* a display shows as many markers as the shape has points, none when rejected.
C3_RoutingTableListsVideo ==
    LoopRouted =>
        /\ Actions(frame) =
               RoutingTable(have_argument_p(landmarks_argument), Len(shape) > 0,
                            cfg.verbose)
        /\ \A i \in DOMAIN trace :
               (trace[i].op = "display" /\ trace[i].k = frame) =>
                   /\ trace[i].markers = Len(shape)
                   /\ result < cfg.tracking_threshold => trace[i].markers = 0

\* a destination, an empty shape and --verbose: displayed and not persisted
C3_Witness ==
    /\ LoopRouted
    /\ have_argument_p(landmarks_argument)
    /\ cfg.verbose
    /\ shape = <<>>
    /\ Actions(frame) = {"display"}

\* ------------------------------------------------------------ C4
\* C4 as stated: image mode does with its frame what the routing table gives,
\* the display under a destination and --verbose included.
C4_ImageFollowsRoutingTable ==
    ImageRouted =>
        Actions(frame) =
            RoutingTable(have_argument_p(landmarks_argument), Len(shape) > 0,
                         cfg.verbose)

\* C4 amended: image mode follows the routing table read with verbose off,
\* whatever the verbose flag: no destination, display only; a destination and
\* a non-empty shape, persist only; a destination and an empty shape, neither.
C4_ImageIgnoresVerbose ==
    ImageRouted =>
        Actions(frame) =
            RoutingTable(have_argument_p(landmarks_argument), Len(shape) > 0, FALSE)

\* a destination, a non-empty shape and --verbose: persisted and not displayed
C4_Witness ==
    /\ ImageRouted
    /\ have_argument_p(landmarks_argument)
    /\ cfg.verbose
    /\ Len(shape) > 0
    /\ Actions(frame) = {"persist"}

\* ------------------------------------------------------------ C5
ListsMismatch ==
    /\ mode = "lists"
    /\ have_argument_p(landmarks_argument)
    /\ Len(landmarks_argument[1]) # Len(image_argument)

\* C5: list mode with an output list of another length than the input list
\* ends with status 2 in its first step: nothing is loaded, tracked, shown or
\* written.
C5_LengthMismatchRejectedFirst ==
    (ListsMismatch /\ pc # "start") =>
        /\ pc = "done"
        /\ exit = 2
        /\ trace = <<>>
        /\ frame = 0

\* 3 input paths, 2 output paths (scenario B), after the run
C5_Witness ==
    /\ ListsMismatch
    /\ Len(image_argument) = 3
    /\ Len(landmarks_argument[1]) = 2
    /\ pc = "done"

\* ------------------------------------------------------------ C6
\* C6: list mode with an output list: the shape of the k-th image is written
\* to the k-th line of the output list, which exists; during the k-th image
\* the destination cursor stands at k.
C6_DestinationInLockStep ==
    (mode = "lists" /\ have_argument_p(landmarks_argument)) =>
        /\ \A i \in DOMAIN trace :
               trace[i].op = "persist" =>
                   /\ trace[i].slot = trace[i].k
                   /\ trace[i].slot \in DOMAIN landmarks_argument[1]
                   /\ trace[i].path = landmarks_argument[1][trace[i].k]
        /\ pc \in {"lists_track", "lists_route", "lists_next"} =>
               landmarks_it = frame /\ image_it = frame

\* image 1 accepted, image 2 left without a shape, image 3 written to line 3
C6_Witness ==
    /\ mode = "lists"
    /\ Routed(1, "persist")
    /\ Routed(2, "track") /\ ~Routed(2, "persist")
    /\ \E i \in DOMAIN trace :
         trace[i] = EvPersist(3, ListPath(3), 3)
    /\ pc = "lists_next"

\* ------------------------------------------------------------ C7
VideoTemplate == mode = "video" /\ have_argument_p(landmarks_argument)

\* "out_%04u.pts" for the frame numbers 1 .. 9
Out04(k) == <<"o", "u", "t", "_", "0", "0", "0", Digit(k), ".", "p", "t", "s">>

\* C7: video mode with a template: while frame k is in hand frame_number is
\* k, a file is written under the number of the frame it belongs to, with
\* "out_%04u.pts" as out_000k.pts, and a rejected frame writes no file.
C7_FrameNumberIsStreamPosition ==
    VideoTemplate =>
        /\ pc \in {"video_track", "video_route", "video_next"} => frame_number = frame
        /\ \A i \in DOMAIN trace :
               /\ trace[i].op = "persist" =>
                      /\ trace[i].slot = trace[i].k
                      /\ landmarks_argument[1] = TemplateOut04 =>
                             trace[i].path = Out04(trace[i].k)
               /\ (trace[i].op = "track" /\ trace[i].below) =>
                      ~Routed(trace[i].k, "persist")

\* scenario C: frame 2 rejected, frame 3 written as out_0003.pts, frame 4
\* rejected without a file
C7_Witness ==
    /\ VideoTemplate
    /\ landmarks_argument[1] = TemplateOut04
    /\ Routed(2, "reset")
    /\ \E i \in DOMAIN trace :
         trace[i] = EvPersist(3, <<"o", "u", "t", "_", "0", "0", "0", "3",
                                   ".", "p", "t", "s">>, 3)
    /\ Routed(4, "reset") /\ ~Routed(4, "persist")
    /\ pc = "video_next"

\* ------------------------------------------------------------ C8
\* C8: video mode with a template that has a substitution slot: two frames
\* are never written to the same pathname.
C8_PathnamesPairwiseDistinct ==
    (VideoTemplate /\ landmarks_argument[1].slot) =>
        \A i, j \in DOMAIN trace :
            (/\ trace[i].op = "persist"
             /\ trace[j].op = "persist"
             /\ trace[i].k # trace[j].k) => trace[i].path # trace[j].path

\* ------------------------------------------------------------ C9
Last == trace[Len(trace)]

\* the run was cancelled by the display of frame k, the last call it made
Cancelled ==
    /\ pc = "done"
    /\ exit = 1
    /\ Len(trace) > 0
    /\ Last.op = "display" /\ Last.esc /\ Last.k = frame
    /\ \A i \in DOMAIN trace : trace[i].k <= Last.k

\* C9: in every mode, the escape key at the display of frame k ends the run
\* with status 1 and that display is the last call of the run; a display
\* that cancels is always the last call; status 1 has no other origin.
C9_EscapeEndsRunWithStatus1 ==
    /\ waited = <<EscapeKey>> => Cancelled
    /\ \A i \in DOMAIN trace :
           (trace[i].op = "display" /\ trace[i].esc) => (i = Len(trace) /\ Cancelled)
    /\ exit = 1 => Cancelled

\* list mode with three images: escape at the display of the second
C9_Witness ==
    /\ mode = "lists"
    /\ Len(image_argument) = 3
    /\ waited = <<EscapeKey>>
    /\ frame = 2
    /\ exit = 1

\* ------------------------------------------------------------ C10
\* a fatal condition has happened: an image or the video could not be read, or
\* the frame in hand has gone through the conversion with an unknown layout
Fatal ==
    \/ \E i \in DOMAIN trace : trace[i].op \in {"fetch", "open"} /\ ~trace[i].ok
    \/ image = "other" /\ pc # "video_loop"

\* the run stopped with status 2 at the failing fetch, before any tracking of it
Aborted ==
    /\ pc = "done"
    /\ exit = 2
    /\ Last.op \in {"fetch", "open"}
    /\ Last.k = frame
    /\ ~Routed(frame, "track") \/ frame = 0

\* C10: an unreadable image (image, list mode), a video that cannot be opened
\* and a video frame with an unknown layout each end the run with status 2;
\* the failing frame is not tracked and nothing is done after it.
C10_FatalAbortsWithStatus2 == Fatal => Aborted

\* list mode: two images processed, the third unreadable
C10_Witness ==
    /\ mode = "lists"
    /\ Routed(2, "track")
    /\ Last = EvFetch(3, FALSE)
    /\ exit = 2

\* video mode: the second frame has an unknown layout
C10_WitnessLayout ==
    /\ mode = "video"
    /\ image = "other"
    /\ frame = 2
    /\ exit = 2

\* ------------------------------------------------------------ C11
\* every tracking call so far returned less than the threshold
AllBelow == \A i \in DOMAIN trace : trace[i].op = "track" => trace[i].below

\* frame k was tracked and the tracker was reset for it
ResetFor(k) == Routed(k, "track") => Routed(k, "reset")

\* C11 as stated: when every confidence is below the threshold, in each of
\* the three modes every frame is rejected, the tracker is reset for every
\* tracked frame and no file is written.
C11_AllRejectedResetEveryMode ==
    AllBelow =>
        /\ Decided => shape = <<>>
        /\ \A k \in 1..frame : ResetFor(k)
        /\ \A k \in 1..frame : ~Routed(k, "persist")

\* C11 amended: when every confidence is below the threshold every frame is
\* rejected and no file is written in all three modes; the tracker is reset
\* for every tracked frame in list and video mode, and never in image mode.
C11_AllRejectedResetInLoops ==
    AllBelow =>
        /\ Decided => shape = <<>>
        /\ \A k \in 1..frame : ~Routed(k, "persist")
        /\ mode \in {"lists", "video"} => \A k \in 1..frame : ResetFor(k)
        /\ mode = "image" => \A k \in 1..frame : ~Routed(k, "reset")

\* scenario E in video mode with a template: threshold 10, three frames
\* with confidence 9, all reset, nothing written
C11_Witness ==
    /\ VideoTemplate
    /\ cfg.tracking_threshold = 10
    /\ result = 9
    /\ frame = 3
    /\ AllBelow
    /\ \A k \in 1..3 : Routed(k, "reset") /\ ~Routed(k, "persist")
    /\ pc = "video_next"

\* scenario E in image mode: rejected, nothing written, no Reset
C11_WitnessImage ==
    /\ mode = "image"
    /\ cfg.tracking_threshold = 10
    /\ result = 9
    /\ have_argument_p(landmarks_argument)
    /\ pc = "done" /\ exit = 0
    /\ ~Routed(1, "reset") /\ ~Routed(1, "persist")

\* the program is one thread that always takes its next step; a display wait
\* returns with some key
FairSpec == Spec /\ WF_vars(Next)

\* ------------------------------------------------------------ C12
\* the number of frames the source holds
SourceLen ==
    IF mode = "lists" THEN Len(image_argument)
    ELSE IF mode = "video" THEN image_argument
    ELSE 1

\* no fatal condition, no length mismatch and no cancelling display so far
CleanRun ==
    /\ ~Fatal
    /\ ~ListsMismatch
    /\ \A i \in DOMAIN trace : trace[i].op = "display" => ~trace[i].esc

TrackCalls(k) == {i \in DOMAIN trace : trace[i].op = "track" /\ trace[i].k = k}

\* every frame of the source tracked exactly once, in source order, no other
TrackedOnceInOrder ==
    /\ \A k \in 1..SourceLen : Cardinality(TrackCalls(k)) = 1
    /\ \A i, j \in DOMAIN trace :
           (trace[i].op = "track" /\ trace[j].op = "track" /\ i < j) =>
               trace[i].k < trace[j].k
    /\ \A i \in DOMAIN trace : trace[i].op = "track" => trace[i].k \in 1..SourceLen

\* C12: every run ends; a run without fatal condition and without escape ends
\* with status 0 after tracking every frame of its source exactly once, in
\* source order (one image, every list entry, every frame of the stream).
C12_CleanRunEndsWithStatus0 ==
    /\ [](pc = "done" /\ CleanRun => exit = 0 /\ TrackedOnceInOrder)
    /\ <>(pc = "done")

\* list mode: four images tracked, the run over with status 0
C12_Witness ==
    /\ mode = "lists"
    /\ Len(image_argument) = 4
    /\ pc = "done" /\ exit = 0
    /\ CleanRun
    /\ \A k \in 1..4 : Routed(k, "track")

\* ------------------------------------------------------------ C13
\* the place of a call in the processing of one frame
Rank(op) ==
    CASE op = "open"    -> 0
      [] op = "fetch"   -> 1
      [] op = "track"   -> 2
      [] op = "reset"   -> 3
      [] op = "persist" -> 4
      [] op = "display" -> 5

\* frame k was shown with at least one marker
ShownWithPoints(k) ==
    \E i \in DOMAIN trace :
        trace[i].op = "display" /\ trace[i].k = k /\ trace[i].markers > 0

\* C13: the calls are made frame by frame, and for one frame in the order
\* fetch, track, reset, persist, display, each at most once; after a
\* cancellation at frame k every frame 1 .. k has been shown, and the files
\* written are those of the frames 1 .. k with a non-empty shape when a
\* destination was given (none otherwise).
C13_OneFrameAtATimeInOrder ==
    /\ \A i, j \in DOMAIN trace :
           i < j =>
               /\ trace[i].k <= trace[j].k
               /\ trace[i].k = trace[j].k => Rank(trace[i].op) < Rank(trace[j].op)
    /\ exit = 1 =>
           \A k \in 1..frame :
               /\ Routed(k, "display")
               /\ Routed(k, "persist") <=>
                      (have_argument_p(landmarks_argument) /\ ShownWithPoints(k))

\* list mode with an output list and --verbose: image 1 rejected, image 2
\* saved and then shown, escape at that display
C13_Witness ==
    /\ mode = "lists"
    /\ have_argument_p(landmarks_argument)
    /\ exit = 1
    /\ frame = 2
    /\ Len(image_argument) = 3
    /\ Routed(1, "reset") /\ ~Routed(1, "persist")
    /\ Len(trace) > 1
    /\ trace[Len(trace) - 1] = EvPersist(2, ListPath(2), 2)
    /\ Last.op = "display" /\ Last.esc

\* ------------------------------------------------------------ C14
\* `tracker' stands for the pair tracker / tracker_params: both are loaded in
\* the first two statements of a driver and deleted in its last two.

\* C14: however the driver ends, the tracker and its parameters loaded at its
\* start have been released.
C14_TrackerReleasedOnEveryExit ==
    pc = "done" => tracker = "deleted"

\* the runs that do release: the driver returned 0
C14_ReleasedOnReturn ==
    (pc = "done" /\ exit = 0) => tracker = "deleted"

\* the runs that do not: an exception left the driver
C14_LeakedOnException ==
    (pc = "done" /\ exit \in {1, 2}) => tracker \in {"cold", "fit", "stale"}

\* ------------------------------------------------------------ C15
\* the routing step has just shown the frame and waited for a key
JustWaited == Len(waited) = 1 /\ pc \in {"lists_next", "video_next", "done"}

Waited == JustWaited /\ Len(trace) > 0 /\ Last.op = "display"

\* C15: the display cancels the run if and only if the key code returned by
\* the wait is 27; with every other code, -1 and the codes above 255
\* included, it returns normally.
C15_CancelIffKeyIs27 ==
    JustWaited =>
        /\ Waited
        /\ Last.esc <=> waited[1] = EscapeKey

\* what the code does: it cancels when the low 8 bits of the key code are 27
C15_CancelIffLowByteIs27 ==
    JustWaited =>
        /\ Waited
        /\ Last.esc <=> waited[1] % 256 = EscapeKey

\* the no-key value -1 and the return key are ignored
C15_OtherKeysIgnored ==
    (Waited /\ waited[1] \in {-1, 13}) => (~Last.esc /\ exit # 1)

\* ------------------------------------------------------------ C16
Displays == {i \in DOMAIN trace : trace[i].op = "display"}

\* C16: a display waits for a key without limit, and prints the prompt,
\* exactly when the configured wait duration is zero; with every other
\* duration, those under one millisecond included, the wait is bounded and
\* there is no prompt.
C16_UnboundedWaitIffZero ==
    \A i \in Displays :
        /\ waits_forever(trace[i].delay) <=> cfg.wait_time = 0
        /\ trace[i].prompt <=> cfg.wait_time = 0

\* what the code does: the prompt goes with a duration of zero, the wait
\* without limit with every duration under one millisecond
C16_UnboundedWaitIffUnderOneMs ==
    \A i \in Displays :
        /\ waits_forever(trace[i].delay) <=> cfg.wait_time < 1000
        /\ trace[i].prompt <=> cfg.wait_time = 0
        /\ trace[i].delay = 33 <=> cfg.wait_time = 33333

\* --wait-time 0.0005: a display that waits without limit and without prompt
C16_SilentUnboundedWait ==
    ~ \E i \in Displays :
          cfg.wait_time = 500 /\ waits_forever(trace[i].delay) /\ ~trace[i].prompt

\* ------------------------------------------------------------ C17
Options == {"--help", "-h", "--lists", "--video", "--verbose"}

\* the words of the command line that are not options
Positionals == {i \in DOMAIN cmd.argv : cmd.argv[i] \notin Options}

\* the i-th word is neither an option nor one of the two positional arguments
Unrecognised(i) ==
    i \in Positionals /\ Cardinality({j \in Positionals : j < i}) >= 2

HelpBefore(i) == \E j \in 1..(i - 1) : cmd.argv[j] \in {"--help", "-h"}

Conflict ==
    \E i, j \in DOMAIN cmd.argv : cmd.argv[i] = "--lists" /\ cmd.argv[j] = "--video"

UsageError == Conflict \/ \E i \in DOMAIN cmd.argv : Unrecognised(i)

\* run_program is over, or has called a driver
Parsed == pc # "parse"

NoDriver == pc = "done" /\ tracker = "unloaded" /\ trace = <<>> /\ frame = 0

\* C17 as stated: a command line with a usage error ends with status 2 and
\* no driver starts, wherever the error stands and whatever else is given.
C17_UsageErrorExits2 ==
    (UsageError /\ Parsed) => (NoDriver /\ exit = 2)

\* the usage errors the loop or the conflict test gets to
ReportedError ==
    \/ \E i \in DOMAIN cmd.argv : Unrecognised(i) /\ ~HelpBefore(i)
    \/ /\ Conflict
       /\ ~HelpBefore(Len(cmd.argv) + 1)
       /\ Positionals # {}

\* C17 amended: with a usage error no driver starts; the status is 2 when an
\* unrecognised argument stands before any --help, or when both switches come
\* with an input argument and without --help; it is 0 (usage text) otherwise.
C17_UsageErrorExits2UnlessUsageShown ==
    (UsageError /\ Parsed) =>
        /\ NoDriver
        /\ exit = IF ReportedError THEN 2 ELSE 0

\* "--lists a --video": the conflict with an input argument, status 2
C17_Witness ==
    /\ cmd.argv = <<"--lists", "a", "--video">>
    /\ pc = "done"
    /\ exit = 2

\* "a b c --help": the third word is refused before --help is read
C17_WitnessUnrecognised ==
    /\ cmd.argv = <<"a", "b", "c", "--help">>
    /\ pc = "done"
    /\ exit = 2

\* "--lists --video": both switches and no input argument, usage and status 0
C17_WitnessUsage ==
    /\ cmd.argv = <<"--lists", "--video">>
    /\ pc = "done"
    /\ exit = 0

\* ------------------------------------------------------------ C18
Tracks == {i \in DOMAIN trace : trace[i].op = "track"}

\* C18: list mode tracks every image with NewFrame and never with Track;
\* video mode tracks every frame with Track, the first frame and the frame
\* after a Reset included; image mode calls NewFrame once and never Reset.
C18_EntryPointPerMode ==
    /\ mode = "lists" => \A i \in Tracks : trace[i].call = "NewFrame"
    /\ mode = "video" => \A i \in Tracks : trace[i].call = "Track"
    /\ mode = "image" =>
           /\ \A i \in Tracks : trace[i].call = "NewFrame" /\ trace[i].k = 1
           /\ Cardinality(Tracks) <= 1
           /\ Decided => Cardinality(Tracks) = 1
           /\ \A i \in DOMAIN trace : trace[i].op # "reset"
    /\ \A k \in 1..frame : Cardinality(TrackCalls(k)) <= 1

\* video mode: frame 1 rejected and reset, frame 2 then tracked with Track
C18_Witness ==
    /\ mode = "video"
    /\ \E i, j \in Tracks :
         /\ trace[i].k = 1 /\ trace[i].call = "Track" /\ trace[i].below
         /\ trace[j].k = 2 /\ trace[j].call = "Track" /\ trace[j].on = "cold"
    /\ Routed(1, "reset")

\* image mode: the image rejected, the run over, no Reset
C18_WitnessImage ==
    /\ mode = "image"
    /\ pc = "done" /\ exit = 0
    /\ result < cfg.tracking_threshold /\ Decided
    /\ Cardinality(Tracks) = 1

\* ------------------------------------------------------------ C19
\* a destination is given and the mode is image, or verbose is off
NoDisplayRun ==
    /\ have_argument_p(landmarks_argument)
    /\ mode = "image" \/ (mode \in {"lists", "video"} /\ ~cfg.verbose)

\* C19: in a run with a destination, in image mode or without --verbose, no
\* frame is ever shown, no key is ever waited for, and the run cannot end
\* with status 1: it ends with 0 or 2.
C19_NoDisplayNoStatus1 ==
    NoDisplayRun =>
        /\ Displays = {}
        /\ waited = <<>>
        /\ exit # 1
        /\ pc = "done" => exit \in {0, 2}

\* image mode with a destination and --verbose: saved, not shown, status 0
C19_Witness ==
    /\ NoDisplayRun
    /\ mode = "image"
    /\ cfg.verbose
    /\ Routed(1, "persist")
    /\ pc = "done" /\ exit = 0

\* video mode with a template, verbose off: two frames saved, then status 2
C19_WitnessFatal ==
    /\ NoDisplayRun
    /\ mode = "video"
    /\ Routed(1, "persist") /\ Routed(2, "persist")
    /\ pc = "done" /\ exit = 2

====
